---- MODULE Spec2Model ----
(***************************************************************************)
(* generate_photos.py: scan the photo directory, convert HEIC to JPEG,     *)
(* read EXIF date and GPS, merge photos_config.json, write the sorted      *)
(* manifest to photos_data.json and photos_data.js.                        *)
(***************************************************************************)
EXTENDS Integers, Sequences, FiniteSets, TLC

\* ------------------------------------------------------------------ bounds
\* Edits of the environment (files added or deleted, photos_config.json
\* edited by the user) in one behaviour; main runs any number of times.
MaxEdits == 1

\* ------------------------------------------------------------- file names
\* A file name is [stem, ext], what os.path.splitext splits it into.
Stems == <<"a", "b">>
\* The extensions of the modelled directory, in Python's string order
\* (upper case sorts before lower case).
Exts == <<".HEIF", ".JPG", ".heic", ".jpeg">>

Names == [stem : {Stems[i] : i \in DOMAIN Stems}, ext : {Exts[i] : i \in DOMAIN Exts}]

SUPPORTED_EXTENSIONS == {".jpeg", ".jpg", ".png", ".gif", ".webp"}
HEIC_EXTENSIONS == {".heic", ".heif"}

\* str.lower() on the extensions of the model.
lower(ext) ==
    CASE ext = ".HEIF" -> ".heif"
      [] ext = ".JPG" -> ".jpg"
      [] OTHER -> ext

IndexOf(seq, x) == CHOOSE i \in DOMAIN seq : seq[i] = x

\* Python's str comparison of stem + ext, as a rank: the stems have one
\* length, so the order is the lexicographic one on (stem, ext).
NameKey(f) == (IndexOf(Stems, f.stem) - 1) * Len(Exts) + IndexOf(Exts, f.ext)

RECURSIVE sorted(_)
\* sorted(names): the set (or the distinct names) in ascending string order.
sorted(S) ==
    IF S = {} THEN <<>>
    ELSE LET m == CHOOSE x \in S : \A y \in S : NameKey(x) <= NameKey(y)
         IN <<m>> \o sorted(S \ {m})

Range(seq) == {seq[i] : i \in DOMAIN seq}

\* ------------------------------------------------------------ extract_exif
\* Optional values: <<>> is None / key absent, <<v>> is the value v.
None == <<>>
Some(v) == <<v>>

DATE_TAGS == <<"DateTimeOriginal", "DateTimeDigitized", "DateTime">>

\* Raw EXIF timestamp strings: 0 stands for a string strptime rejects (such as
\* "0000:00:00 00:00:00"), n >= 1 for the well-formed timestamp of second n.
RawDates == {0, 1, 2}
strptime_ok(raw) == raw >= 1
\* ISO-8601 strings are ranked in half seconds: an EXIF timestamp has whole
\* seconds, a modification time may carry a fraction.
isoformat(raw) == 2 * raw
MTimes == {2, 3}

TagValues == {None} \cup {Some(r) : r \in RawDates}

\* A degrees/minutes/seconds triple; a value of another length fails the
\* unpacking in to_degrees.
BadTriple == <<40, 26>>

NoGps == [present |-> FALSE, items_ok |-> TRUE, lat |-> None, lon |-> None,
          latRef |-> "absent", lonRef |-> "absent"]

GpsInputs ==
    {NoGps}
    \cup {[NoGps EXCEPT !.present = TRUE, !.items_ok = FALSE]}
    \cup [present : {TRUE}, items_ok : {TRUE},
          lat : {None, Some(BadTriple), Some(<<40, 26, 46>>)},
          lon : {None, Some(BadTriple), Some(<<79, 58, 56>>)},
          latRef : {"absent", "S"}, lonRef : {"absent", "E", "W"}]

\* What extract_exif reads of one file: whether Image.open succeeds, what
\* img._getexif() does ("raise": no such method or a malformed tag
\* structure; "none": no metadata block; "tags"), and the decoded tags.
ExifInputs ==
    [open : {"ok", "fail"}, getexif : {"raise", "none", "tags"},
     tags : [{DATE_TAGS[i] : i \in DOMAIN DATE_TAGS} -> TagValues],
     gps : GpsInputs]

\* Lines 84-91: the first date tag that is present decides, parseable or not.
RECURSIVE DateLoop(_, _)
DateLoop(tags, i) ==
    IF i > Len(DATE_TAGS) THEN None
    ELSE IF tags[DATE_TAGS[i]] # None
         THEN IF strptime_ok(tags[DATE_TAGS[i]][1])
              THEN Some(isoformat(tags[DATE_TAGS[i]][1]))
              ELSE None
         ELSE DateLoop(tags, i + 1)

\* to_degrees, rounded to 6 decimals, in microdegrees: with t the angle in
\* arc seconds, round(t * 10^6 / 3600) = round(t * 2500 / 9).
to_degrees(value) ==
    ((value[1] * 3600 + value[2] * 60 + value[3]) * 5000 + 9) \div 18

\* Lines 94-111: raises (TRUE) or the geo value.
GpsRaises(gps) ==
    /\ gps.present
    /\ \/ ~gps.items_ok
       \/ /\ gps.lat # None /\ gps.lon # None
          /\ (Len(gps.lat[1]) # 3 \/ Len(gps.lon[1]) # 3)

GpsValue(gps) ==
    IF gps.present /\ gps.lat # None /\ gps.lon # None
    THEN LET lat == to_degrees(gps.lat[1])
             lon == to_degrees(gps.lon[1])
         IN Some([lat |-> IF gps.latRef = "S" THEN -lat ELSE lat,
                  lon |-> IF gps.lonRef = "W" THEN -lon ELSE lon])
    ELSE None

\* The try block of extract_exif (lines 72-113): `result` when control
\* leaves the block, whether the Image handle is still open then (img.close()
\* was not reached), and the exception that left the block ("none": it ran to
\* its end or returned at line 76).
exif_body(x) ==
    IF x.open = "fail"
    THEN [date |-> None, geo |-> None, open |-> FALSE, exc |-> "OSError"]
    ELSE IF x.getexif = "raise"
    THEN [date |-> None, geo |-> None, open |-> TRUE, exc |-> "AttributeError"]
    ELSE IF x.getexif = "none"
    THEN [date |-> None, geo |-> None, open |-> FALSE, exc |-> "none"]
    ELSE IF GpsRaises(x.gps)
    THEN [date |-> DateLoop(x.tags, 1), geo |-> None, open |-> TRUE,
          exc |-> "ValueError"]
    ELSE [date |-> DateLoop(x.tags, 1), geo |-> GpsValue(x.gps), open |-> FALSE,
          exc |-> "none"]

\* Line 114: `except Exception` catches every exception of the block.
Caught_OnlyOSError(exc) == exc = "OSError"

Caught(exc) == exc \in {"OSError", "AttributeError", "ValueError"}

\* extract_exif(filepath): the returned dict, whether an exception escapes,
\* and whether the Image handle is still open on return.
extract_exif(x) ==
    LET r == exif_body(x)
    IN [date |-> r.date, geo |-> r.geo, open |-> r.open,
        raised |-> r.exc # "none" /\ ~Caught(r.exc)]

\* Lines 185-187: the date of the record.
ResolveDate(exif, mtime) == IF exif.date = None THEN mtime ELSE exif.date[1]


\* ----------------------------------------------------------- configuration
\* A JSON value of photos_config.json, by shape: "list" (v: the filenames),
\* "map" (v: the (name, files) items in file order), "num" (a value of the
\* wrong shape, such as 5) or "missing" (the key is absent).
List(v) == [t |-> "list", v |-> v]
Map(v) == [t |-> "map", v |-> v]
Num == [t |-> "num", v |-> <<>>]
Missing == [t |-> "missing", v |-> <<>>]

\* dict.get(key, default)
get(value, default) == IF value.t = "missing" THEN default ELSE value

\* The file: absent, not JSON ("invalid"), JSON that is no object
\* ("nondict"), or an object ("dict") with these keys.
Config(kind, instr, fav, col, allp) ==
    [kind |-> kind, instructions |-> instr, favorites |-> fav,
     collections |-> col, all_photos |-> allp]

NoConfig == Config("absent", FALSE, Missing, Missing, Missing)

COLLECTION_NAMES == <<"flowers", "food", "friends">>

\* Lines 122-132.
default_config(all_filenames) ==
    Config("dict", TRUE, List(<<>>),
           Map([i \in DOMAIN COLLECTION_NAMES |->
                   [name |-> COLLECTION_NAMES[i], files |-> List(<<>>)]]),
           List(sorted(Range(all_filenames))))

\* Line 148: the list load_config stores when new photos were found.
UpdatedAllPhotos(existing, current) == sorted(current)

\* The configuration load_config stores and returns when new photos were
\* found (lines 148-150).
UpdatedConfig_ResetsAssignments(config, existing, current) ==
    [default_config(sorted(current)) EXCEPT
        !.all_photos = List(UpdatedAllPhotos(existing, current))]

UpdatedConfig(config, existing, current) ==
    [config EXCEPT !.all_photos = List(UpdatedAllPhotos(existing, current))]

\* load_config(all_filenames) on the file content `file`: whether it raises,
\* the file content afterwards, and the returned configuration.
load_config(all_filenames, file) ==
    IF file.kind = "absent"
    THEN [raised |-> FALSE, file |-> default_config(all_filenames),
          config |-> default_config(all_filenames)]
    ELSE IF file.kind \in {"invalid", "nondict"}
    THEN [raised |-> TRUE, file |-> file, config |-> file]
    ELSE IF get(file.all_photos, List(<<>>)).t # "list"
    THEN [raised |-> TRUE, file |-> file, config |-> file]
    ELSE LET existing == Range(get(file.all_photos, List(<<>>)).v)
             current == Range(all_filenames)
             new_photos == current \ existing
         IN IF new_photos # {}
            THEN [raised |-> FALSE,
                  file |-> UpdatedConfig(file, existing, current),
                  config |-> UpdatedConfig(file, existing, current)]
            ELSE [raised |-> FALSE, file |-> file, config |-> file]

\* Lines 190-195: whether the category loop raises for file f, and cats.
RECURSIVE CollectionCats(_, _, _)
CollectionCats(f, items, i) ==
    IF i > Len(items) THEN <<>>
    ELSE (IF f \in Range(items[i].files.v) THEN <<items[i].name>> ELSE <<>>)
         \o CollectionCats(f, items, i + 1)

CategoriesRaise(collections_config) ==
    \/ collections_config.t # "map"
    \/ \E i \in DOMAIN collections_config.v :
          collections_config.v[i].files.t # "list"

Categories_FavoritesLast(f, favorites_set, collections_config) ==
    CollectionCats(f, collections_config.v, 1)
    \o (IF f \in favorites_set THEN <<"favorites">> ELSE <<>>)

Categories(f, favorites_set, collections_config) ==
    (IF f \in favorites_set THEN <<"favorites">> ELSE <<>>)
    \o CollectionCats(f, collections_config.v, 1)

\* Lines 197-204: the record of one photo; geo and categories are optional
\* keys.
PhotoRecord(f, date, geo, cats) ==
    [file |-> f, date |-> date, geo |-> geo,
     categories |-> IF cats # <<>> THEN Some(cats) ELSE None]

\* Line 209: list.sort(key=date) is a stable sort, here by insertion.
RECURSIVE InsertByDate(_, _)
InsertByDate(sortedSeq, p) ==
    IF sortedSeq = <<>> THEN <<p>>
    ELSE IF Head(sortedSeq).date <= p.date
         THEN <<Head(sortedSeq)>> \o InsertByDate(Tail(sortedSeq), p)
         ELSE <<p>> \o sortedSeq

RECURSIVE SortByDate(_)
SortByDate_Unsorted(photos) == photos

SortByDate(photos) ==
    IF photos = <<>> THEN <<>>
    ELSE InsertByDate(SortByDate(SubSeq(photos, 1, Len(photos) - 1)),
                      photos[Len(photos)])


\* ------------------------------------------------------------------- state
VARIABLES
    HEIF_SUPPORT,   \* pillow_heif was importable (lines 33-38)
    dirExists,      \* PHOTOS_DIR is a directory
    photosDir,      \* the file names in PHOTOS_DIR
    configFile,     \* the content of CONFIG_FILE
    outJson,        \* the content of OUTPUT_JSON
    outJs,          \* the content of OUTPUT_JS
    pc,             \* where main is
    todo,           \* Step 1: the listed HEIC files not yet visited
    files,          \* Step 2: the sorted supported file names
    rest,           \* Step 4: the files not yet processed
    config,         \* Step 3: the configuration load_config returned
    photos,         \* Step 4: the records so far
    error,          \* the uncaught exception that ended the run
    exitCode,       \* the exit status of the run
    openHandles,    \* Image handles opened by the run and not closed
    edits,          \* counter bounding a behaviour
    pre,            \* the files as they were when the run started
    exifIn, exifOut \* one application of extract_exif

vars == <<HEIF_SUPPORT, dirExists, photosDir, configFile, outJson, outJs, pc,
          todo, files, rest, config, photos, error, exitCode, openHandles,
          edits, pre, exifIn, exifOut>>

locals == <<todo, files, rest, config, photos>>
exifVars == <<exifIn, exifOut>>

Absent == [format |-> "absent", data |-> <<>>]

IsHeic(f) == lower(f.ext) \in HEIC_EXTENSIONS
IsSupported(f) == lower(f.ext) \in SUPPORTED_EXTENSIONS

\* Line 55: os.path.splitext(filepath)[0] + ".jpeg"
new_path(f) == [stem |-> f.stem, ext |-> ".jpeg"]

Running == pc \in {"convert", "config", "process", "write_js"}

\* What a run starts from: the files, whether the run before it completed
\* with nothing changed since (afterDone), and the HEIC files that run
\* had started from (prevHeic).
Snapshot(afterDone, prevHeic) ==
    [config |-> configFile, json |-> outJson, js |-> outJs, dir |-> photosDir,
     afterDone |-> afterDone, prevHeic |-> prevHeic]

Name(stem, ext) == [stem |-> stem, ext |-> ext]

\* The directories and configuration files a behaviour starts from.
InitDirs == {S \in SUBSET Names : Cardinality(S) <= 2}

InitConfigs ==
    {NoConfig,
     default_config(<<Name("a", ".jpeg")>>),
     Config("dict", TRUE,
            List(<<Name("a", ".jpeg")>>),
            Map(<<[name |-> "flowers", files |-> List(<<Name("a", ".jpeg"), Name("b", ".jpeg")>>)],
                  [name |-> "food", files |-> List(<<>>)],
                  [name |-> "friends", files |-> List(<<Name("a", ".jpeg")>>)]>>),
            List(<<Name("a", ".jpeg"), Name("b", ".jpeg")>>))}

Init ==
    /\ HEIF_SUPPORT \in BOOLEAN
    /\ dirExists \in BOOLEAN
    /\ photosDir \in (IF dirExists THEN InitDirs ELSE {{}})
    /\ configFile \in InitConfigs
    /\ outJson = Absent
    /\ outJs = Absent
    /\ pc = "idle"
    /\ todo = {}
    /\ files = <<>>
    /\ rest = <<>>
    /\ config = NoConfig
    /\ photos = <<>>
    /\ error = "none"
    /\ exitCode = -1
    /\ openHandles = 0
    /\ edits = 0
    /\ pre = Snapshot(FALSE, {})
    /\ exifIn = None
    /\ exifOut = None

\* ------------------------------------------------------------- environment
Edit ==
    /\ ~Running
    /\ edits < MaxEdits
    /\ edits' = edits + 1
    /\ pc' = "idle"
    /\ UNCHANGED <<HEIF_SUPPORT, dirExists, outJson, outJs, locals, error,
                   exitCode, openHandles, pre, exifVars>>

\* The user copies a file into the photo directory.
AddFile ==
    /\ Edit
    /\ dirExists
    /\ \E f \in Names \ photosDir : photosDir' = photosDir \cup {f}
    /\ UNCHANGED configFile

\* The user deletes a file from the photo directory.
DeleteFile ==
    /\ Edit
    /\ \E f \in photosDir : photosDir' = photosDir \ {f}
    /\ UNCHANGED configFile

WellFormed(c) ==
    /\ c.kind = "dict"
    /\ c.favorites.t = "list"
    /\ c.collections.t = "map"
    /\ \A i \in DOMAIN c.collections.v : c.collections.v[i].files.t = "list"
    /\ c.all_photos.t = "list"

\* The user edits photos_config.json: a name of _all_photos becomes a
\* favorite.
UserAddFavorite ==
    /\ Edit
    /\ WellFormed(configFile)
    /\ \E f \in Range(configFile.all_photos.v) :
          configFile' = [configFile EXCEPT
              !.favorites = List(Append(configFile.favorites.v, f))]
    /\ UNCHANGED photosDir

\* The user edits photos_config.json: a name of _all_photos joins a
\* collection.
UserAddToCollection ==
    /\ Edit
    /\ WellFormed(configFile)
    /\ \E f \in Range(configFile.all_photos.v), i \in DOMAIN configFile.collections.v :
          configFile' = [configFile EXCEPT
              !.collections.v[i].files = List(Append(@.v, f))]
    /\ UNCHANGED photosDir

\* The user leaves photos_config.json malformed.
BrokenConfigs(c) ==
    {[c EXCEPT !.kind = "invalid"], [c EXCEPT !.kind = "nondict"],
     [c EXCEPT !.favorites = Num], [c EXCEPT !.collections = Num],
     [c EXCEPT !.all_photos = Num],
     [c EXCEPT !.collections.v[1].files = Num]}

UserBreaksConfig ==
    /\ Edit
    /\ WellFormed(configFile)
    /\ configFile' \in BrokenConfigs(configFile)
    /\ UNCHANGED photosDir

\* The user deletes photos_config.json.
UserDeletesConfig ==
    /\ Edit
    /\ configFile.kind # "absent"
    /\ configFile' = NoConfig
    /\ UNCHANGED photosDir

\* -------------------------------------------------------------------- main
Abort(why) ==
    /\ pc' = "aborted"
    /\ error' = why
    /\ exitCode' = 1

\* Lines 157-159 and the listing of line 162.
StartRun ==
    /\ ~Running
    /\ pre' = Snapshot(pc = "done",
                       IF pc = "done" THEN {f \in pre.dir : IsHeic(f)} ELSE {})
    /\ openHandles' = 0
    /\ files' = <<>> /\ rest' = <<>> /\ config' = NoConfig /\ photos' = <<>>
    /\ IF ~dirExists
       THEN /\ Abort("SystemExit")
            /\ todo' = {}
       ELSE /\ pc' = "convert"
            /\ error' = "none"
            /\ exitCode' = -1
            /\ todo' = {f \in photosDir : IsHeic(f)}
    /\ UNCHANGED <<HEIF_SUPPORT, dirExists, photosDir, configFile, outJson,
                   outJs, edits, exifVars>>

\* convert_heic_to_jpeg on one listed file (lines 49-65): without HEIF
\* support the file is skipped; Image.open or img.save may raise, and main
\* does not catch it.
ConvertOutcomes == {"ok", "open_raises", "save_raises"}

\* Lines 55-64: the directory after a conversion that succeeded.
DirAfterConvert_KeepsOriginal(dir, f) == dir \cup {new_path(f)}

DirAfterConvert(dir, f) == (dir \ {f}) \cup {new_path(f)}

ConvertHeic ==
    /\ pc = "convert"
    /\ \E f \in todo :
          /\ todo' = todo \ {f}
          /\ IF ~HEIF_SUPPORT
             THEN UNCHANGED <<photosDir, pc, error, exitCode, openHandles>>
             ELSE \E outcome \in ConvertOutcomes :
                    CASE outcome = "ok" ->
                           /\ photosDir' = DirAfterConvert(photosDir, f)
                           /\ UNCHANGED <<pc, error, exitCode, openHandles>>
                      [] outcome = "open_raises" ->
                           /\ Abort("convert")
                           /\ UNCHANGED <<photosDir, openHandles>>
                      [] outcome = "save_raises" ->
                           /\ Abort("convert")
                           /\ openHandles' = openHandles + 1
                           /\ UNCHANGED photosDir
    /\ UNCHANGED <<HEIF_SUPPORT, dirExists, configFile, outJson, outJs, files,
                   rest, config, photos, edits, pre, exifVars>>

\* Lines 168-171.
ScanFiles ==
    /\ pc = "convert"
    /\ todo = {}
    /\ files' = sorted({f \in photosDir : IsSupported(f)})
    /\ pc' = "config"
    /\ UNCHANGED <<HEIF_SUPPORT, dirExists, photosDir, configFile, outJson,
                   outJs, todo, rest, config, photos, error, exitCode,
                   openHandles, edits, pre, exifVars>>

\* Lines 174-176: load_config, then set(config.get("favorites", [])).
LoadConfig ==
    /\ pc = "config"
    /\ LET r == load_config(files, configFile)
       IN /\ configFile' = r.file
          /\ config' = r.config
          /\ IF r.raised \/ get(r.config.favorites, List(<<>>)).t # "list"
             THEN /\ Abort("config")
                  /\ UNCHANGED rest
             ELSE /\ pc' = "process"
                  /\ rest' = files
                  /\ UNCHANGED <<error, exitCode>>
    /\ UNCHANGED <<HEIF_SUPPORT, dirExists, photosDir, outJson, outJs, todo,
                   files, photos, openHandles, edits, pre, exifVars>>

\* The EXIF content of the photos of the directory: the files of one stem
\* are one photo in several containers (conversion keeps the EXIF block).
ExifOf(f) ==
    IF f.stem = "a"
    THEN [open |-> "ok", getexif |-> "tags",
          tags |-> [DateTimeOriginal |-> Some(2), DateTimeDigitized |-> None,
                    DateTime |-> Some(1)],
          gps |-> [present |-> TRUE, items_ok |-> TRUE,
                   lat |-> Some(<<40, 26, 46>>), lon |-> Some(<<79, 58, 56>>),
                   latRef |-> "absent", lonRef |-> "W"]]
    ELSE [open |-> "ok", getexif |-> "tags",
          tags |-> [DateTimeOriginal |-> Some(0), DateTimeDigitized |-> Some(2),
                    DateTime |-> None],
          gps |-> [present |-> TRUE, items_ok |-> TRUE,
                   lat |-> Some(BadTriple), lon |-> Some(<<79, 58, 56>>),
                   latRef |-> "absent", lonRef |-> "absent"]]

\* Lines 180-206 for the next file.
ProcessPhoto ==
    /\ pc = "process"
    /\ rest # <<>>
    /\ LET f == Head(rest)
           favorites_set == Range(get(config.favorites, List(<<>>)).v)
           collections_config == get(config.collections, Map(<<>>))
           exif == extract_exif(ExifOf(f))
       IN \E mtime \in (IF exif.date = None THEN MTimes ELSE {0}) :
            /\ openHandles' = openHandles + (IF exif.open THEN 1 ELSE 0)
            /\ IF exif.raised
               THEN /\ Abort("exif")
                    /\ UNCHANGED <<rest, photos>>
               ELSE IF CategoriesRaise(collections_config)
               THEN /\ Abort("categories")
                    /\ UNCHANGED <<rest, photos>>
               ELSE /\ photos' = Append(photos,
                           PhotoRecord(f, ResolveDate(exif, mtime), exif.geo,
                               Categories(f, favorites_set, collections_config)))
                    /\ rest' = Tail(rest)
                    /\ UNCHANGED <<pc, error, exitCode>>
    /\ UNCHANGED <<HEIF_SUPPORT, dirExists, photosDir, configFile, outJson,
                   outJs, todo, files, config, edits, pre, exifVars>>

\* Lines 209-213.
WriteJson ==
    /\ pc = "process"
    /\ rest = <<>>
    /\ photos' = SortByDate(photos)
    /\ outJson' = [format |-> "json", data |-> photos']
    /\ pc' = "write_js"
    /\ UNCHANGED <<HEIF_SUPPORT, dirExists, photosDir, configFile, outJs, todo,
                   files, rest, config, error, exitCode, openHandles,
                   edits, pre, exifVars>>

\* Lines 216-219, had they raised.
WriteJs_Raises ==
    /\ pc = "write_js"
    /\ Abort("write")
    /\ UNCHANGED <<HEIF_SUPPORT, dirExists, photosDir, configFile, outJson,
                   outJs, todo, files, rest, config, photos, openHandles,
                   edits, pre, exifVars>>

\* Lines 216-219, and the normal exit.
WriteJs ==
    /\ pc = "write_js"
    /\ outJs' = [format |-> "js", data |-> photos]
    /\ pc' = "done"
    /\ exitCode' = 0
    /\ UNCHANGED <<HEIF_SUPPORT, dirExists, photosDir, configFile, outJson,
                   todo, files, rest, config, photos, error, openHandles,
                   edits, pre, exifVars>>

Next ==
    \/ AddFile
    \/ DeleteFile
    \/ UserAddFavorite
    \/ UserAddToCollection
    \/ UserBreaksConfig
    \/ UserDeletesConfig
    \/ StartRun
    \/ ConvertHeic
    \/ ScanFiles
    \/ LoadConfig
    \/ ProcessPhoto
    \/ WriteJson
    \/ WriteJs

Spec == Init /\ [][Next]_vars

\* ------------------------------------------- extract_exif on its own inputs
\* extract_exif applied to every modelled file content, and the caller's
\* fallback to the modification time (lines 182-187).
InitExif ==
    /\ HEIF_SUPPORT = TRUE
    /\ dirExists = TRUE
    /\ photosDir = {}
    /\ configFile = NoConfig
    /\ outJson = Absent
    /\ outJs = Absent
    /\ pc = "idle"
    /\ todo = {}
    /\ files = <<>>
    /\ rest = <<>>
    /\ config = NoConfig
    /\ photos = <<>>
    /\ error = "none"
    /\ exitCode = -1
    /\ openHandles = 0
    /\ edits = 0
    /\ pre = Snapshot(FALSE, {})
    /\ exifIn \in {Some([x |-> x, mtime |-> m]) : x \in ExifInputs, m \in MTimes}
    /\ exifOut = None

ExtractExif ==
    /\ exifIn # None
    /\ exifOut = None
    /\ LET exif == extract_exif(exifIn[1].x)
       IN /\ exifOut' = Some([exif |-> exif,
                              date |-> ResolveDate(exif, exifIn[1].mtime)])
          /\ openHandles' = openHandles + (IF exif.open THEN 1 ELSE 0)
    /\ UNCHANGED <<HEIF_SUPPORT, dirExists, photosDir, configFile, outJson,
                   outJs, pc, locals, error, exitCode, edits, pre, exifIn>>

NextExif == ExtractExif

SpecExif == InitExif /\ [][NextExif]_vars


\* ------------------------------------------------------------------ claims
\* load_config has returned to main in this run, and nothing was edited since.
ConfigLoaded == pc \in {"process", "write_js", "done"}

KnownNames(c) == Range(get(c.all_photos, List(<<>>)).v)

\* C1: every filename that was in _all_photos before a run of load_config is
\* still in _all_photos after it, also when its file is gone from disk.
C1_AllPhotosOnlyGrows ==
    (ConfigLoaded /\ WellFormed(pre.config))
        => KnownNames(pre.config) \subseteq KnownNames(configFile)

\* C2: after a run against a well-formed configuration file, rewritten or
\* not, favorites, collections and every other key but _all_photos have the
\* value they had before the run.
C2_AssignmentsUntouched ==
    (ConfigLoaded /\ WellFormed(pre.config))
        => /\ configFile.kind = "dict"
           /\ configFile.favorites = pre.config.favorites
           /\ configFile.collections = pre.config.collections
           /\ configFile.instructions = pre.config.instructions

\* C2 witness: a completed run that rewrote a configuration holding
\* favorites and collection entries.
C2_Witness ==
    /\ pc = "done"
    /\ WellFormed(pre.config)
    /\ pre.config.favorites.v # <<>>
    /\ \E i \in DOMAIN pre.config.collections.v :
          pre.config.collections.v[i].files.v # <<>>
    /\ configFile.all_photos # pre.config.all_photos

\* C3: a failing HEIC conversion does not end the run: the exception of
\* convert_heic_to_jpeg never is the uncaught error of an aborted run.
C3_ConversionFailureDoesNotAbort ==
    ~(pc = "aborted" /\ error = "convert" /\ exitCode = 1)

Sorted(data) ==
    \A i, j \in DOMAIN data : i < j => data[i].date <= data[j].date

Complete(data) ==
    /\ Len(data) = Len(files)
    /\ {data[i].file : i \in DOMAIN data} = Range(files)

\* C4: a run that aborts leaves both output files as they were before the
\* run; a run that completes has written the complete sorted manifest to
\* both.
C4_OutputsAllOrNothing ==
    /\ pc = "aborted" => (outJson = pre.json /\ outJs = pre.js)
    /\ pc = "done" =>
          /\ outJson.format = "json" /\ outJs.format = "js"
          /\ outJson.data = outJs.data
          /\ Complete(outJson.data)
          /\ Sorted(outJson.data)

\* C4 witness: a run aborted in the per-photo stage, the outputs of an
\* earlier run still in place.
C4_Witness ==
    /\ pc = "aborted"
    /\ error = "categories"
    /\ pre.json.format = "json" /\ pre.json.data # <<>>
    /\ outJson = pre.json /\ outJs = pre.js

SortedStable(data) ==
    \A i, j \in DOMAIN data :
        i < j => \/ data[i].date < data[j].date
                 \/ /\ data[i].date = data[j].date
                    /\ NameKey(data[i].file) < NameKey(data[j].file)

\* C5: the manifest of a completed run is ascending by date in both outputs,
\* records of equal date in the order of the filename-sorted scan.
C5_ManifestSortedStable ==
    pc = "done" => (SortedStable(outJson.data) /\ SortedStable(outJs.data))

\* C5 witness: a manifest with two records of equal date and with a record
\* that the sort moved in front of one of a smaller filename.
C5_Witness ==
    /\ pc = "done"
    /\ \E i, j \in DOMAIN outJson.data :
          i < j /\ outJson.data[i].date = outJson.data[j].date
    /\ \E i, j \in DOMAIN outJson.data :
          i < j /\ NameKey(outJson.data[i].file) > NameKey(outJson.data[j].file)

\* The collections of the loaded configuration that list f, as positions of
\* the mapping, and the k-th of them in iteration order.
ListingCollections(f) ==
    {i \in DOMAIN config.collections.v : f \in Range(config.collections.v[i].files.v)}

KthListing(f, k) ==
    CHOOSE i \in ListingCollections(f) :
        Cardinality({j \in ListingCollections(f) : j < i}) = k - 1

ExpectedCategories(p) ==
    LET f == p.file
        fav == f \in Range(get(config.favorites, List(<<>>)).v)
        n == Cardinality(ListingCollections(f))
        off == IF fav THEN 1 ELSE 0
    IN /\ (p.categories # None) <=> (fav \/ n > 0)
       /\ p.categories # None =>
             LET cats == p.categories[1]
             IN /\ Len(cats) = off + n
                /\ fav => cats[1] = "favorites"
                /\ \A k \in 1..n :
                      cats[off + k] = config.collections.v[KthListing(f, k)].name

\* C6: a record has categories exactly when its file is a favorite or listed
\* by a collection; the list is "favorites" first (for a favorite), then the
\* listing collections in the order of the mapping, each once.
C6_CategoriesOfRecord ==
    ConfigLoaded => \A i \in DOMAIN photos : ExpectedCategories(photos[i])

\* C6 witness: a manifest with a favorite listed by two collections, and
\* with a record without categories.
C6_Witness ==
    /\ pc = "done"
    /\ \E i \in DOMAIN outJson.data :
          outJson.data[i].categories = Some(<<"favorites", "flowers", "friends">>)
    /\ \E i \in DOMAIN outJson.data : outJson.data[i].categories = None

\* C7: with HEIF support, a completed run leaves no HEIC file it started
\* from, leaves its .jpeg in place with exactly one record, and the run after
\* it finds no HEIC file to convert.
C7_HeicConvertedOnce ==
    HEIF_SUPPORT =>
        /\ pc = "done" =>
              \A f \in pre.dir :
                  IsHeic(f) =>
                      /\ f \notin photosDir
                      /\ new_path(f) \in photosDir
                      /\ Cardinality({i \in DOMAIN outJson.data :
                                         outJson.data[i].file = new_path(f)}) = 1
        /\ (pc = "convert" /\ pre.afterDone) => todo = {}

\* C7 witness: the run after a completed run that converted two HEIC files
\* of one stem.
C7_Witness ==
    /\ HEIF_SUPPORT
    /\ pc = "convert"
    /\ pre.afterDone
    /\ \E f, g \in pre.prevHeic : f # g /\ new_path(f) = new_path(g)
    /\ \A f \in pre.prevHeic : new_path(f) \in photosDir /\ f \notin photosDir

\* The input and the result of the application of extract_exif.
In == exifIn[1].x
Out == exifOut[1].exif

Parseable(tags) ==
    {i \in DOMAIN DATE_TAGS :
        tags[DATE_TAGS[i]] # None /\ tags[DATE_TAGS[i]][1] >= 1}

Present(tags) == {i \in DOMAIN DATE_TAGS : tags[DATE_TAGS[i]] # None}

Min(S) == CHOOSE i \in S : \A j \in S : i <= j

\* An exception is raised inside the try block: at Image.open, at
\* img._getexif(), or in the GPS block.
ErrorBeforeDates == In.open = "fail" \/ In.getexif = "raise"

ErrorInGps ==
    /\ In.open = "ok" /\ In.getexif = "tags"
    /\ In.gps.present
    /\ \/ ~In.gps.items_ok
       \/ /\ In.gps.lat # None /\ In.gps.lon # None
          /\ (Len(In.gps.lat[1]) # 3 \/ Len(In.gps.lon[1]) # 3)

\* C8: the date is that of the first date field, in the order
\* DateTimeOriginal, DateTimeDigitized, DateTime, that is present and
\* parseable; it is null only when there is none.
C8_FirstParseableDateWins ==
    (exifOut # None /\ In.open = "ok" /\ In.getexif = "tags") =>
        Out.date = IF Parseable(In.tags) = {} THEN None
                   ELSE Some(2 * In.tags[DATE_TAGS[Min(Parseable(In.tags))]][1])

C10_NoHandleLeftOpen == openHandles = 0

====
